---- MODULE Spec2Model ----
(***************************************************************************)
(* Office-Management-API: the CRUD handlers of src/app/*/routers.py over   *)
(* their MongoDB collections.  Every handler touches exactly one           *)
(* collection and the collections are independent, so a behaviour follows  *)
(* one collection: res names it and is fixed by Init.                      *)
(*                                                                         *)
(* Strings are sequences of characters, a dict is a function from keys to  *)
(* values, Optional[T] is the set {} (None) or {v}.                        *)
(***************************************************************************)
EXTENDS Integers, Sequences, FiniteSets, TLC

\* ------------------------------------------------------------------ bounds
\* number of ObjectIds the store hands out in one behaviour
MaxIds == 2
\* characters of an identifier string (24 in bson, narrowed here)
IdLen == 2

\* ----------------------------------------------------------------- strings
EmptyStr == << >>
S_a == <<"a">>
S_b == <<"b">>
S_Ab == <<"A", "b">>

None == {}
Some(v) == {v}
Val(o) == CHOOSE v \in o : TRUE

\* Python truthiness of the values a query parameter can hold:
\* None and "" are falsy (Optional[str]); None and 0.0 are (Optional[float]).
Truthy(o) == o # None /\ Val(o) # EmptyStr
TruthyNum(o) == o # None /\ Val(o) # 0

\* ------------------------------------------------------------- identifiers
\* bson.ObjectId: a fixed-width string of digits <-> a store-native value.
HexDigits == <<"0", "1", "2">>
Base == Len(HexDigits)

RECURSIVE Pow(_, _)
Pow(b, n) == IF n = 0 THEN 1 ELSE b * Pow(b, n - 1)

DigitVal(c) == CHOOSE i \in 0..(Base - 1) : HexDigits[i + 1] = c

\* bson.ObjectId.is_valid / ObjectId(str): InvalidId unless the string has
\* the fixed width and only digits of the encoding.
ObjectIdValid(s) ==
    /\ Len(s) = IdLen
    /\ \A i \in 1..Len(s) : \E k \in 1..Base : HexDigits[k] = s[i]

RECURSIVE ParseDigits(_, _)
ParseDigits(s, acc) ==
    IF s = << >> THEN acc
    ELSE ParseDigits(Tail(s), acc * Base + DigitVal(Head(s)))

\* ObjectId(id): string -> native value (defined for valid strings)
ObjectId(s) == ParseDigits(s, 0)

\* str(oid): native value -> fixed-width string
ObjectIdStr(n) ==
    [i \in 1..IdLen |-> HexDigits[((n \div Pow(Base, IdLen - i)) % Base) + 1]]

\* ------------------------------------------------------------------ dicts
EmptyDict == [k \in {} |-> 0]
\* {**d, key: v} and d[key] = v
DictSet(d, k, v) == (k :> v) @@ d
\* {**a, **b}: b's entries win
DictMerge(a, b) == b @@ a
DictWithout(d, k) == [x \in (DOMAIN d) \ {k} |-> d[x]]

\* ------------------------------------------------------- the document store
\* A collection is a set of documents, each a dict with a unique "_id".
\* A query is a dict field -> condition; a condition is an exact value or a
\* {"$regex": pattern, "$options": "i"} pair.
Eq(v) == [op |-> "eq", v |-> v]
Regex(p) == [op |-> "regex", v |-> p]

Lower(c) == IF c = "A" THEN "a" ELSE IF c = "B" THEN "b" ELSE c

\* one pattern character against one subject character, option "i";
\* "." is the any-character metacharacter
CharMatch(pc, c) == pc = "." \/ Lower(pc) = Lower(c)

\* unanchored regular-expression search of pattern p in subject s
RegexSearch(p, s) ==
    \E off \in 0..Len(s) :
        /\ off + Len(p) <= Len(s)
        /\ \A j \in 1..Len(p) : CharMatch(p[j], s[off + j])

CondHolds(v, c) ==
    IF c.op = "eq" THEN v = c.v ELSE RegexSearch(c.v, v)

Matches(d, q) ==
    \A k \in DOMAIN q : k \in DOMAIN d /\ CondHolds(d[k], q[k])

\* collection.find(query)
find(c, q) == {d \in c : Matches(d, q)}

\* collection.find_one(query): a document or None
find_one_none(c, q) == None

find_one(c, q) ==
    IF find(c, q) = {} THEN None ELSE Some(CHOOSE d \in find(c, q) : TRUE)

\* collection.insert_one(doc): the driver assigns the fresh ObjectId oid
insert_one_dedup(c, doc, oid) ==
    IF \E d \in c : DictWithout(d, "_id") = doc THEN c
    ELSE c \cup {DictSet(doc, "_id", oid)}

insert_one(c, doc, oid) == c \cup {DictSet(doc, "_id", oid)}

\* collection.update_one(filter, {"$set": set}); no upsert
update_one_upsert(c, q, set) ==
    IF find(c, q) = {}
    THEN [coll |-> c \cup {DictSet(set, "_id", q["_id"].v)}, matched_count |-> 0]
    ELSE LET d == CHOOSE x \in find(c, q) : TRUE
         IN  [coll |-> (c \ {d}) \cup {DictMerge(d, set)}, matched_count |-> 1]

update_one_keep(c, q, set) ==
    IF find(c, q) = {}
    THEN [coll |-> c, matched_count |-> 0]
    ELSE LET d == CHOOSE x \in find(c, q) : TRUE
         IN  [coll |-> (c \ {d}) \cup {DictMerge(set, d)}, matched_count |-> 1]

update_one(c, q, set) ==
    IF find(c, q) = {}
    THEN [coll |-> c, matched_count |-> 0]
    ELSE LET d == CHOOSE x \in find(c, q) : TRUE
         IN  [coll |-> (c \ {d}) \cup {DictMerge(d, set)}, matched_count |-> 1]

\* collection.delete_one(filter)
delete_one_count1(c, q) ==
    IF find(c, q) = {}
    THEN [coll |-> c, deleted_count |-> 1]
    ELSE LET d == CHOOSE x \in find(c, q) : TRUE
         IN  [coll |-> c \ {d}, deleted_count |-> 1]

delete_one(c, q) ==
    IF find(c, q) = {}
    THEN [coll |-> c, deleted_count |-> 0]
    ELSE LET d == CHOOSE x \in find(c, q) : TRUE
         IN  [coll |-> c \ {d}, deleted_count |-> 1]

\* --------------------------------------------------------- pydantic models
\* Model(**d): ValidationError when a required field is missing; keys that
\* are not fields of the model are ignored.
ModelOk(required, d) == required \subseteq DOMAIN d
ModelOf(fields, d) == [k \in fields \cap DOMAIN d |-> d[k]]

\* an HTTP response: status and the records of its body (order aside)
Response(status, data) == [status |-> status, data |-> data]
\* what a handler does: its response and the collection it leaves
Outcome(status, data, c) == [status |-> status, data |-> data, coll |-> c]

\* ids a search request carries: absent, empty, or a string
IdQuery(id) == IF Truthy(id) THEN "_id" :> Eq(ObjectId(Val(id))) ELSE EmptyDict
IdBad(id) == Truthy(id) /\ ~ObjectIdValid(Val(id))

\* "except Exception as e: raise HTTPException(status_code=500, ...)": any
\* exception raised inside the try block, an HTTPException included, leaves
\* the handler as a 500.
ExceptException(raised) == 500
\* an exception no handler catches reaches custom_exception_handler
custom_exception_handler(raised) == 500

\* Model(**kw) for one record / for every record of a result list
Built(fields, kw, okStatus, errStatus, c) ==
    IF ModelOk(fields, kw)
    THEN Outcome(okStatus, {ModelOf(fields, kw)}, c)
    ELSE Outcome(errStatus, {}, c)

BuiltAll(fields, kws, errStatus, c) ==
    IF \A kw \in kws : ModelOk(fields, kw)
    THEN Outcome(200, {ModelOf(fields, kw) : kw \in kws}, c)
    ELSE Outcome(errStatus, {}, c)

\* doc["_id"] = str(doc["_id"])
StrId(doc) == DictSet(doc, "_id", ObjectIdStr(doc["_id"]))
\* {**doc, "id": str(doc["_id"])}
WithId(doc) == DictSet(doc, "id", doc["_id"])

\* query[field] = {"$regex": v, "$options": "i"} / query[field] = v, if v:
RegexIf(field, o) == IF Truthy(o) THEN field :> Regex(Val(o)) ELSE EmptyDict
EqIf(field, o) == IF Truthy(o) THEN field :> Eq(Val(o)) ELSE EmptyDict
EqIfNum(field, o) == IF TruthyNum(o) THEN field :> Eq(Val(o)) ELSE EmptyDict

\* ---------------------------------------------------------------- documents
DocumentBase == {"title", "description", "uploaded_by"}
Document == DocumentBase \cup {"id"}

create_document(c, oid, document) ==
    IF find_one(c, "title" :> Eq(document["title"])) # None
    THEN Outcome(400, {}, c)
    ELSE LET stored == insert_one(c, document, oid)
             document_dict == DictSet(document, "_id", ObjectIdStr(oid))
         IN  Built(Document, WithId(document_dict), 201,
                   custom_exception_handler(422), stored)

get_documents(c) ==
    BuiltAll(Document, {WithId(StrId(doc)) : doc \in c}, ExceptException(422), c)

search_documents(c, id, title, uploaded_by) ==
    IF IdBad(id) THEN Outcome(ExceptException(400), {}, c)
    ELSE LET query == IdQuery(id) @@ RegexIf("title", title)
                          @@ RegexIf("uploaded_by", uploaded_by)
         IN  BuiltAll(Document, {WithId(StrId(doc)) : doc \in find(c, query)},
                      ExceptException(422), c)

update_document(c, document_id, document) ==
    IF ~ObjectIdValid(document_id) THEN Outcome(ExceptException(400), {}, c)
    ELSE LET result == update_one(c, "_id" :> Eq(ObjectId(document_id)), document)
             document_dict == DictSet(document, "_id", document_id)
         IN  IF result.matched_count = 0
             THEN Outcome(ExceptException(404), {}, result.coll)
             ELSE Built(Document, DictSet(document_dict, "id", document_id), 200,
                        ExceptException(422), result.coll)

delete_document(c, document_id) ==
    IF ~ObjectIdValid(document_id) THEN Outcome(ExceptException(400), {}, c)
    ELSE LET result == delete_one(c, "_id" :> Eq(ObjectId(document_id)))
         IN  IF result.deleted_count = 0
             THEN Outcome(ExceptException(404), {}, result.coll)
             ELSE Outcome(200, {}, result.coll)

\* ---------------------------------------------------------------- employees
EmployeeBase == {"name", "position", "salary"}
Employee == EmployeeBase \cup {"id"}

create_employee(c, oid, employee) ==
    IF find_one(c, "name" :> Eq(employee["name"])) # None
    THEN Outcome(ExceptException(400), {}, c)
    ELSE LET stored == insert_one(c, employee, oid)
             employee_dict == DictSet(employee, "_id", ObjectIdStr(oid))
         IN  Built(Employee, employee_dict, 201, ExceptException(422), stored)

get_employees(c) ==
    BuiltAll(Employee, {StrId(emp) : emp \in c}, ExceptException(422), c)

search_employees(c, id, name, position, salary) ==
    IF IdBad(id) THEN Outcome(ExceptException(400), {}, c)
    ELSE LET query == IdQuery(id) @@ RegexIf("name", name)
                          @@ EqIf("position", position) @@ EqIfNum("salary", salary)
         IN  BuiltAll(Employee, {StrId(emp) : emp \in find(c, query)},
                      ExceptException(422), c)

update_employee(c, employee_id, employee) ==
    IF ~ObjectIdValid(employee_id) THEN Outcome(ExceptException(400), {}, c)
    ELSE LET result == update_one(c, "_id" :> Eq(ObjectId(employee_id)), employee)
             employee_dict == DictSet(employee, "_id", employee_id)
         IN  IF result.matched_count = 0
             THEN Outcome(ExceptException(404), {}, result.coll)
             ELSE Built(Employee, employee_dict, 200, ExceptException(422),
                        result.coll)

delete_employee(c, employee_id) ==
    IF ~ObjectIdValid(employee_id) THEN Outcome(ExceptException(400), {}, c)
    ELSE LET result == delete_one(c, "_id" :> Eq(ObjectId(employee_id)))
         IN  IF result.deleted_count = 0
             THEN Outcome(ExceptException(404), {}, result.coll)
             ELSE Outcome(200, {}, result.coll)

\* ----------------------------------------------------------------- meetings
MeetingBase == {"title", "description", "organizer", "date", "start_time",
                "end_time", "attendees"}
Meeting == MeetingBase \cup {"id"}

create_meeting(c, oid, meeting) ==
    IF find_one(c, ("title" :> Eq(meeting["title"]))
                   @@ ("date" :> Eq(meeting["date"]))) # None
    THEN Outcome(400, {}, c)
    ELSE LET stored == insert_one(c, meeting, oid)
             meeting_dict == DictSet(meeting, "_id", ObjectIdStr(oid))
         IN  Built(Meeting, WithId(meeting_dict), 201,
                   custom_exception_handler(422), stored)

get_meetings(c) ==
    BuiltAll(Meeting, {WithId(StrId(meeting)) : meeting \in c},
             ExceptException(422), c)

search_meetings(c, id, title, organizer, date) ==
    IF IdBad(id) THEN Outcome(ExceptException(400), {}, c)
    ELSE LET query == IdQuery(id) @@ RegexIf("title", title)
                          @@ RegexIf("organizer", organizer) @@ EqIf("date", date)
         IN  BuiltAll(Meeting, {WithId(StrId(m)) : m \in find(c, query)},
                      ExceptException(422), c)

update_meeting(c, meeting_id, meeting) ==
    IF ~ObjectIdValid(meeting_id) THEN Outcome(ExceptException(400), {}, c)
    ELSE LET result == update_one(c, "_id" :> Eq(ObjectId(meeting_id)), meeting)
             meeting_dict == DictSet(meeting, "_id", meeting_id)
         IN  IF result.matched_count = 0
             THEN Outcome(ExceptException(404), {}, result.coll)
             ELSE Built(Meeting, DictSet(meeting_dict, "id", meeting_id), 200,
                        ExceptException(422), result.coll)

delete_meeting(c, meeting_id) ==
    IF ~ObjectIdValid(meeting_id) THEN Outcome(ExceptException(400), {}, c)
    ELSE LET result == delete_one(c, "_id" :> Eq(ObjectId(meeting_id)))
         IN  IF result.deleted_count = 0
             THEN Outcome(ExceptException(404), {}, result.coll)
             ELSE Outcome(200, {}, result.coll)

\* -------------------------------------------------------------------- chats
ChatCreate == {"message", "sender", "timestamp"}
ChatResponse == ChatCreate \cup {"id"}

create_chat(c, oid, chat) ==
    LET stored == insert_one(c, chat, oid)
        chat_dict == DictSet(chat, "_id", ObjectIdStr(oid))
    IN  Built(ChatResponse, DictSet(chat_dict, "id", chat_dict["_id"]), 201,
              ExceptException(422), stored)

get_chats(c) ==
    BuiltAll(ChatResponse, {DictSet(chat, "id", ObjectIdStr(chat["_id"])) : chat \in c},
             ExceptException(422), c)

search_chats(c, message, sender, timestamp) ==
    LET query == RegexIf("message", message) @@ EqIf("sender", sender)
                     @@ EqIf("timestamp", timestamp)
    IN  BuiltAll(ChatResponse,
                 {DictSet(chat, "id", ObjectIdStr(chat["_id"])) : chat \in find(c, query)},
                 ExceptException(422), c)

update_chat(c, chat_id, chat) ==
    IF ~ObjectIdValid(chat_id) THEN Outcome(ExceptException(400), {}, c)
    ELSE LET result == update_one(c, "_id" :> Eq(ObjectId(chat_id)), chat)
             chat_dict == DictSet(chat, "_id", chat_id)
         IN  IF result.matched_count = 0
             THEN Outcome(ExceptException(404), {}, result.coll)
             ELSE Built(ChatResponse, DictSet(chat_dict, "id", chat_id), 200,
                        ExceptException(422), result.coll)

delete_chat(c, chat_id) ==
    IF ~ObjectIdValid(chat_id) THEN Outcome(ExceptException(400), {}, c)
    ELSE LET result == delete_one(c, "_id" :> Eq(ObjectId(chat_id)))
         IN  IF result.deleted_count = 0
             THEN Outcome(ExceptException(404), {}, result.coll)
             ELSE Outcome(204, {}, result.coll)

\* ----------------------------------------------------------------- projects
\* end_date is Optional with default None: not required
ProjectBase == {"name", "description", "start_date", "end_date", "status",
                "members"}
ProjectRequired == ProjectBase \ {"end_date"}
Project == ProjectBase \cup {"id"}

BuiltProject(kw, okStatus, errStatus, c) ==
    IF ModelOk(ProjectRequired \cup {"id"}, kw)
    THEN Outcome(okStatus, {ModelOf(Project, kw)}, c)
    ELSE Outcome(errStatus, {}, c)

BuiltAllProjects(kws, errStatus, c) ==
    IF \A kw \in kws : ModelOk(ProjectRequired \cup {"id"}, kw)
    THEN Outcome(200, {ModelOf(Project, kw) : kw \in kws}, c)
    ELSE Outcome(errStatus, {}, c)

create_project(c, oid, project) ==
    IF find_one(c, "name" :> Eq(project["name"])) # None
    THEN Outcome(400, {}, c)
    ELSE LET stored == insert_one(c, project, oid)
             project_dict == DictSet(project, "_id", ObjectIdStr(oid))
         IN  BuiltProject(WithId(project_dict), 201,
                          custom_exception_handler(422), stored)

get_projects(c) ==
    BuiltAllProjects({WithId(StrId(project)) : project \in c},
                     ExceptException(422), c)

search_projects(c, id, name, status) ==
    IF IdBad(id) THEN Outcome(ExceptException(400), {}, c)
    ELSE LET query == IdQuery(id) @@ RegexIf("name", name)
                          @@ RegexIf("status", status)
         IN  BuiltAllProjects({WithId(StrId(p)) : p \in find(c, query)},
                              ExceptException(422), c)

update_project(c, project_id, project) ==
    IF ~ObjectIdValid(project_id) THEN Outcome(ExceptException(400), {}, c)
    ELSE LET result == update_one(c, "_id" :> Eq(ObjectId(project_id)), project)
             project_dict == DictSet(project, "_id", project_id)
         IN  IF result.matched_count = 0
             THEN Outcome(ExceptException(404), {}, result.coll)
             ELSE BuiltProject(DictSet(project_dict, "id", project_id), 200,
                               ExceptException(422), result.coll)

delete_project(c, project_id) ==
    IF ~ObjectIdValid(project_id) THEN Outcome(ExceptException(400), {}, c)
    ELSE LET result == delete_one(c, "_id" :> Eq(ObjectId(project_id)))
         IN  IF result.deleted_count = 0
             THEN Outcome(ExceptException(404), {}, result.coll)
             ELSE Outcome(200, {}, result.coll)

\* ----------------------------------------------------------------- expenses
ExpenseBase == {"title", "amount", "category", "incurred_by", "date"}
Expense == ExpenseBase \cup {"id"}

create_expense(c, oid, expense) ==
    LET stored == insert_one(c, expense, oid)
        expense_dict == DictSet(expense, "_id", ObjectIdStr(oid))
    IN  Built(Expense, WithId(expense_dict), 201,
              custom_exception_handler(422), stored)

get_expenses(c) ==
    BuiltAll(Expense, {WithId(StrId(exp)) : exp \in c}, ExceptException(422), c)

search_expenses(c, id, title, category, incurred_by) ==
    IF IdBad(id) THEN Outcome(ExceptException(400), {}, c)
    ELSE LET query == IdQuery(id) @@ RegexIf("title", title)
                          @@ RegexIf("category", category)
                          @@ RegexIf("incurred_by", incurred_by)
         IN  BuiltAll(Expense, {WithId(StrId(exp)) : exp \in find(c, query)},
                      ExceptException(422), c)

update_expense(c, expense_id, expense) ==
    IF ~ObjectIdValid(expense_id) THEN Outcome(ExceptException(400), {}, c)
    ELSE LET result == update_one(c, "_id" :> Eq(ObjectId(expense_id)), expense)
             expense_dict == DictSet(expense, "_id", expense_id)
         IN  IF result.matched_count = 0
             THEN Outcome(ExceptException(404), {}, result.coll)
             ELSE Built(Expense, DictSet(expense_dict, "id", expense_id), 200,
                        ExceptException(422), result.coll)

delete_expense(c, expense_id) ==
    IF ~ObjectIdValid(expense_id) THEN Outcome(ExceptException(400), {}, c)
    ELSE LET result == delete_one(c, "_id" :> Eq(ObjectId(expense_id)))
         IN  IF result.deleted_count = 0
             THEN Outcome(ExceptException(404), {}, result.coll)
             ELSE Outcome(200, {}, result.coll)

\* ------------------------------------------------------ dispatch by resource
Resources == {"chats", "documents", "employees", "expenses", "meetings",
              "projects"}

\* query parameters of GET /{resource}/search/ besides id
SearchParams(r) ==
    CASE r = "documents" -> {"title", "uploaded_by"}
      [] r = "employees" -> {"name", "position", "salary"}
      [] r = "meetings"  -> {"title", "organizer", "date"}
      [] r = "chats"     -> {"message", "sender", "timestamp"}
      [] r = "projects"  -> {"name", "status"}
      [] r = "expenses"  -> {"title", "category", "incurred_by"}

\* search_chats declares no id parameter
HasIdParam(r) == r # "chats"

\* the fields of the pre-insert existence query
UniqueKey(r) ==
    CASE r = "documents" -> {"title"}
      [] r = "employees" -> {"name"}
      [] r = "meetings"  -> {"title", "date"}
      [] r = "projects"  -> {"name"}
      [] OTHER           -> {}

create(r, c, oid, p) ==
    CASE r = "documents" -> create_document(c, oid, p)
      [] r = "employees" -> create_employee(c, oid, p)
      [] r = "meetings"  -> create_meeting(c, oid, p)
      [] r = "chats"     -> create_chat(c, oid, p)
      [] r = "projects"  -> create_project(c, oid, p)
      [] r = "expenses"  -> create_expense(c, oid, p)

list(r, c) ==
    CASE r = "documents" -> get_documents(c)
      [] r = "employees" -> get_employees(c)
      [] r = "meetings"  -> get_meetings(c)
      [] r = "chats"     -> get_chats(c)
      [] r = "projects"  -> get_projects(c)
      [] r = "expenses"  -> get_expenses(c)

search(r, c, id, q) ==
    CASE r = "documents" -> search_documents(c, id, q["title"], q["uploaded_by"])
      [] r = "employees" -> search_employees(c, id, q["name"], q["position"], q["salary"])
      [] r = "meetings"  -> search_meetings(c, id, q["title"], q["organizer"], q["date"])
      [] r = "chats"     -> search_chats(c, q["message"], q["sender"], q["timestamp"])
      [] r = "projects"  -> search_projects(c, id, q["name"], q["status"])
      [] r = "expenses"  -> search_expenses(c, id, q["title"], q["category"], q["incurred_by"])

update(r, c, id, p) ==
    CASE r = "documents" -> update_document(c, id, p)
      [] r = "employees" -> update_employee(c, id, p)
      [] r = "meetings"  -> update_meeting(c, id, p)
      [] r = "chats"     -> update_chat(c, id, p)
      [] r = "projects"  -> update_project(c, id, p)
      [] r = "expenses"  -> update_expense(c, id, p)

delete(r, c, id) ==
    CASE r = "documents" -> delete_document(c, id)
      [] r = "employees" -> delete_employee(c, id)
      [] r = "meetings"  -> delete_meeting(c, id)
      [] r = "chats"     -> delete_chat(c, id)
      [] r = "projects"  -> delete_project(c, id)
      [] r = "expenses"  -> delete_expense(c, id)

\* ------------------------------------------------------------ request inputs
\* values of the fields searched by pattern, and of those searched exactly
Names == {S_a, S_Ab}
People == {S_b, S_Ab}

\* valid request bodies (the binding layer rejects every other body before
\* the handler runs)
Payloads(r) ==
    CASE r = "documents" ->
           {[title |-> t, description |-> S_b, uploaded_by |-> u] :
               t \in Names, u \in Names}
      [] r = "employees" ->
           {[name |-> n, position |-> ps,
             salary |-> IF (n = S_a) = (ps = S_b) THEN 0 ELSE 1] :
               n \in Names, ps \in People}
      [] r = "meetings" ->
           {[title |-> t, description |-> S_b,
             organizer |-> IF (t = S_a) = (d = S_b) THEN S_a ELSE S_Ab,
             date |-> d, start_time |-> S_a, end_time |-> S_b,
             attendees |-> <<S_a>>] :
               t \in Names, d \in People}
      [] r = "chats" ->
           {[message |-> m, sender |-> sn, timestamp |-> S_a] :
               m \in Names, sn \in People}
      [] r = "projects" ->
           {[name |-> n, description |-> S_b, start_date |-> S_a,
             end_date |-> None, status |-> st, members |-> <<S_a>>] :
               n \in Names, st \in Names}
      [] r = "expenses" ->
           {[title |-> t, amount |-> 1, category |-> cg, incurred_by |-> S_b,
             date |-> S_a] : t \in Names, cg \in Names}

\* id strings a caller sends: the string of every id the store can hand
\* out, of one it never hands out, and two malformed ones
BadCharId == [i \in 1..IdLen |-> "z"]
TooLongId == ObjectIdStr(0) \o <<"0">>
PathIds == {ObjectIdStr(n) : n \in 0..MaxIds} \cup {BadCharId, TooLongId}

\* values of the search parameters: a pattern, an exact string (the empty
\* string included), a number (0 included)
StrFilters == {None, Some(S_b)}
ExactFilters == {None, Some(EmptyStr), Some(S_b)}
NumFilters == {None, Some(0), Some(1)}

Queries(r) ==
    CASE r = "documents" -> [title : StrFilters, uploaded_by : StrFilters]
      [] r = "employees" ->
           [name : StrFilters, position : ExactFilters, salary : NumFilters]
      [] r = "meetings"  ->
           [title : StrFilters, organizer : StrFilters, date : ExactFilters]
      [] r = "chats"     ->
           [message : StrFilters, sender : ExactFilters, timestamp : ExactFilters]
      [] r = "projects"  -> [name : StrFilters, status : StrFilters]
      [] r = "expenses"  ->
           [title : StrFilters, category : StrFilters, incurred_by : StrFilters]
NoFilters(r) == [k \in SearchParams(r) |-> None]

\* the searches a caller sends: every combination of filters, alone or with
\* a well-formed id, and a malformed id (the handler raises on it before it
\* reads another filter)
SearchRequests(r) ==
    IF HasIdParam(r)
    THEN ({None, Some(ObjectIdStr(0))} \X Queries(r))
             \cup {<<Some(BadCharId), NoFilters(r)>>}
    ELSE {None} \X Queries(r)

\* -------------------------------------------------------------------- state
VARIABLES
    res,      \* the collection this behaviour follows
    coll,     \* its documents
    nextId,   \* the next ObjectId the driver generates
    req,      \* the last request
    resp,     \* the response to it
    before,   \* the collection when the last request arrived
    deleted,  \* ids whose delete succeeded
    n201,     \* number of creates answered 201
    procs,    \* the requests in flight, one per worker thread
    start     \* the collection when the requests in flight arrived

vars == <<res, coll, nextId, req, resp, before, deleted, n201, procs, start>>

Request(op, id, body, q) == [op |-> op, id |-> id, body |-> body, q |-> q]

\* worker threads serving requests at the same time
Workers == {1, 2}
\* a request in flight: where its handler stands (pc), what its existence
\* query found (seen), the deleted_count it observed, its response status
InFlight(op, id, body, pc) ==
    [op |-> op, id |-> id, body |-> body, pc |-> pc, seen |-> FALSE,
     count |-> 0, status |-> 0]
Idle == InFlight("none", None, None, "done")

Init ==
    /\ res \in Resources
    /\ coll = {}
    /\ nextId = 0
    /\ req = Request("none", None, None, EmptyDict)
    /\ resp = Response(0, {})
    /\ before = {}
    /\ deleted = {}
    /\ n201 = 0
    /\ procs = [w \in Workers |-> Idle]
    /\ start = {}

\* the request is served: response, collection and history
Serve(r, out) ==
    /\ req' = r
    /\ resp' = Response(out.status, out.data)
    /\ before' = coll
    /\ coll' = out.coll
    /\ res' = res
    /\ UNCHANGED <<procs, start>>

\* POST /{resource}/
Create ==
    \E p \in Payloads(res) :
        LET out == create(res, coll, nextId, p)
        IN  /\ out.coll # coll => nextId < MaxIds
            /\ Serve(Request("create", None, Some(p), EmptyDict), out)
            /\ nextId' = IF out.coll # coll THEN nextId + 1 ELSE nextId
            /\ n201' = IF out.status = 201 THEN n201 + 1 ELSE n201
            /\ deleted' = deleted

\* GET /{resource}/
List ==
    /\ Serve(Request("list", None, None, EmptyDict), list(res, coll))
    /\ UNCHANGED <<nextId, deleted, n201>>

\* GET /{resource}/search/
Search ==
    \E sr \in SearchRequests(res) :
        /\ Serve(Request("search", sr[1], None, sr[2]),
                 search(res, coll, sr[1], sr[2]))
        /\ UNCHANGED <<nextId, deleted, n201>>

\* PUT /{resource}/{id}
Update ==
    \E id \in PathIds, p \in Payloads(res) :
        /\ Serve(Request("update", Some(id), Some(p), EmptyDict),
                 update(res, coll, id, p))
        /\ UNCHANGED <<nextId, deleted, n201>>

\* DELETE /{resource}/{id}
Delete ==
    \E id \in PathIds :
        LET out == delete(res, coll, id)
        IN  /\ Serve(Request("delete", Some(id), None, EmptyDict), out)
            /\ deleted' = deleted \cup {d["_id"] : d \in coll \ out.coll}
            /\ UNCHANGED <<nextId, n201>>

Next == Create \/ List \/ Search \/ Update \/ Delete

Spec == Init /\ [][Next]_vars

\* ------------------------------------------------- requests served at once
\* The handlers are plain functions run on worker threads; each reaches the
\* store through separate calls, and calls of different requests interleave.

\* create, up to its existence query: the document found, or None
create_check(r, c, p) ==
    IF UniqueKey(r) = {} THEN None
    ELSE find_one(c, [k \in UniqueKey(r) |-> Eq(p[k])])

\* create, when the existence query found a document: its status
create_rejected(r, p) == create(r, {DictSet(p, "_id", 0)}, 1, p).status

\* create, from insert_one on, against the collection as it is by then
create_insert(r, c, oid, p) ==
    LET out == create(r, {}, oid, p)
    IN  Outcome(out.status, out.data, insert_one(c, p, oid))

\* delete: its one store call, and the status it gives for a deleted_count
delete_call(c, id) == delete_one(c, "_id" :> Eq(ObjectId(id)))
delete_status(r, id, count) ==
    IF count = 0 THEN delete(r, {}, id).status
    ELSE delete(r, {"_id" :> ObjectId(id)}, id).status

RaceRequests(r) ==
    {InFlight("create", None, Some(p), "check") : p \in Payloads(r)}
        \cup {InFlight("delete", Some(ObjectIdStr(n)), None, "call") :
                 n \in 0..(MaxIds - 1)}

Creates(f) == Cardinality({w \in Workers : f[w].op = "create"})

History == <<req, resp, before, n201>>

\* two requests arrive while no other is in flight
Begin ==
    /\ \A w \in Workers : procs[w].pc = "done"
    /\ \E r1 \in RaceRequests(res), r2 \in RaceRequests(res) :
           LET f == [w \in Workers |-> IF w = 1 THEN r1 ELSE r2]
           IN  /\ nextId + Creates(f) <= MaxIds
               /\ procs' = f
    /\ start' = coll
    /\ UNCHANGED <<res, coll, nextId, deleted, History>>

\* find_one of create_*; a hit ends the request
CreateCheck ==
    \E w \in Workers :
        /\ procs[w].pc = "check"
        /\ LET p == Val(procs[w].body)
               hit == create_check(res, coll, p) # None
           IN  procs' = [procs EXCEPT
                   ![w].seen = hit,
                   ![w].pc = IF hit THEN "done" ELSE "insert",
                   ![w].status = IF hit THEN create_rejected(res, p) ELSE 0]
        /\ UNCHANGED <<res, coll, nextId, deleted, start, History>>

\* insert_one of create_* and the response
CreateInsert ==
    \E w \in Workers :
        /\ procs[w].pc = "insert"
        /\ LET out == create_insert(res, coll, nextId, Val(procs[w].body))
           IN  /\ coll' = out.coll
               /\ procs' = [procs EXCEPT ![w].pc = "done",
                                         ![w].status = out.status]
        /\ nextId' = nextId + 1
        /\ UNCHANGED <<res, deleted, start, History>>

\* delete_one of delete_* and the response
DeleteCall ==
    \E w \in Workers :
        /\ procs[w].pc = "call"
        /\ LET id == Val(procs[w].id)
               result == delete_call(coll, id)
           IN  /\ coll' = result.coll
               /\ deleted' = deleted \cup {d["_id"] : d \in coll \ result.coll}
               /\ procs' = [procs EXCEPT
                      ![w].pc = "done",
                      ![w].count = result.deleted_count,
                      ![w].status = delete_status(res, id, result.deleted_count)]
        /\ UNCHANGED <<res, nextId, start, History>>

NextRace == Begin \/ CreateCheck \/ CreateInsert \/ DeleteCall

SpecRace == Init /\ [][NextRace]_vars

\* ------------------------------------------------------------- vocabulary
Ids(c) == {d["_id"] : d \in c}
\* the base fields of a stored document
Fields(d) == DictWithout(d, "_id")
\* the Record a caller sees for a stored document
Rec(d) == DictSet(Fields(d), "id", ObjectIdStr(d["_id"]))
KeyOf(r, d) == [k \in UniqueKey(r) |-> d[k]]
\* p's uniqueness key is the key of a document of c
Conflicts(r, c, p) ==
    UniqueKey(r) # {} /\ \E d \in c : KeyOf(r, d) = KeyOf(r, p)
\* the id string is well-formed and names a document of c
NamesRecord(c, id) == ObjectIdValid(id) /\ ObjectId(id) \in Ids(c)
ReqBody == Val(req.body)
ReqId == Val(req.id)

\* ---------------------------------------------------------------- claims

\* C1: on a resource with a uniqueness rule, a create whose key equals the
\* key of a record already present inserts nothing: the collection after
\* the request is the collection before it.
C1_DuplicateCreateInsertsNothing ==
    (req.op = "create" /\ Conflicts(res, before, ReqBody)) => coll = before

\* a create was rejected for its key alone: the body differs from the
\* stored record that holds the key
C1_Witness ==
    /\ req.op = "create"
    /\ Conflicts(res, before, ReqBody)
    /\ \A d \in before : Fields(d) # ReqBody

\* C2: on a resource with a uniqueness rule, two sequential creates with
\* the same key, the key being absent before the first, answer 201 and
\* then 400.
C2_TwoCreatesOneSuccessOne400 ==
    [][(/\ req.op = "create"
        /\ req'.op = "create"
        /\ UniqueKey(res) # {}
        /\ ~Conflicts(res, before, ReqBody)
        /\ KeyOf(res, Val(req'.body)) = KeyOf(res, ReqBody))
       => (resp.status = 201 /\ resp'.status = 400)]_vars

\* C3: a create of a valid payload that conflicts with no uniqueness key
\* and equals no present record answers 201 with a non-empty id, and a
\* list issued afterwards answers 200 with exactly one record whose fields
\* equal the payload, carrying that id.
C3_CreateThenList ==
    (/\ req.op = "create"
     /\ ~Conflicts(res, before, ReqBody)
     /\ \A d \in before : Fields(d) # ReqBody)
    => /\ resp.status = 201
       /\ \E rec \in resp.data :
            /\ rec["id"] # EmptyStr
            /\ list(res, coll).status = 200
            /\ {x \in list(res, coll).data : DictWithout(x, "id") = ReqBody}
                   = {rec}

\* C4: an update or delete whose id is well-formed but names no present
\* record answers 404.
C4_MissingTargetIs404 ==
    (/\ req.op \in {"update", "delete"}
     /\ ObjectIdValid(ReqId)
     /\ ObjectId(ReqId) \notin Ids(before))
    => resp.status = 404

\* C5: an update addressed to an id that names no present record leaves
\* the collection as it was: nothing inserted, no field changed.
C5_UpdateOfAbsentIdChangesNothing ==
    (req.op = "update" /\ ~NamesRecord(before, ReqId)) => coll = before

\* an update reached the store for an id whose record was deleted, while
\* another record is present
C5_Witness ==
    /\ req.op = "update"
    /\ ObjectIdValid(ReqId)
    /\ ObjectId(ReqId) \in deleted
    /\ before # {}

\* C6: the first delete of a present id succeeds and removes exactly that
\* record; a deleted id is never present again; every later delete of it
\* answers 404 and changes nothing.
C6_DeleteOnceThenNotFound ==
    /\ deleted \cap Ids(coll) = {}
    /\ (req.op = "delete" /\ NamesRecord(before, ReqId))
       => /\ resp.status \in {200, 204}
          /\ coll = {d \in before : d["_id"] # ObjectId(ReqId)}
    /\ (/\ req.op = "delete"
        /\ ObjectIdValid(ReqId)
        /\ ObjectId(ReqId) \in deleted
        /\ ObjectId(ReqId) \notin Ids(before))
       => (resp.status = 404 /\ coll = before)

\* C7: when an update succeeds, the record with that id holds exactly the
\* new payload under the same identifier, the number of records and every
\* other record are unchanged, and list and search show the new payload
\* for that id and nothing else.
C7_UpdateReplacesFields ==
    (req.op = "update" /\ resp.status = 200)
    => LET oid == ObjectId(ReqId)
           new == DictSet(ReqBody, "id", ObjectIdStr(oid))
           shown(out) == {x \in out.data : ObjectId(x["id"]) = oid}
       IN  /\ \E d \in coll : d["_id"] = oid /\ Fields(d) = ReqBody
           /\ Ids(coll) = Ids(before)
           /\ Cardinality(coll) = Cardinality(before)
           /\ \A d \in before : d["_id"] # oid => d \in coll
           /\ list(res, coll).status = 200
           /\ shown(list(res, coll)) = {new}
           /\ shown(search(res, coll, None, NoFilters(res))) = {new}
           /\ HasIdParam(res)
              => search(res, coll, Some(ObjectIdStr(oid)), NoFilters(res)).data
                     = {new}
           /\ \A q \in Queries(res) :
                  shown(search(res, coll, None, q)) \subseteq {new}

\* an update succeeded with a payload that differs from the stored fields,
\* next to a second record
C7_Witness ==
    /\ req.op = "update"
    /\ resp.status = 200
    /\ Cardinality(coll) = 2
    /\ \E d \in before : d["_id"] = ObjectId(ReqId) /\ Fields(d) # ReqBody

\* C8: search by id, update and delete answer 400 for an id string that
\* cannot be translated to a store identifier, and leave the store as it
\* was.
C8_InvalidIdentifierIs400 ==
    (/\ req.op \in {"search", "update", "delete"}
     /\ req.id # None
     /\ ~ObjectIdValid(ReqId))
    => (resp.status = 400 /\ coll = before)

\* which search parameters the handlers compare exactly; the others are
\* patterns
ExactParams(r) ==
    CASE r = "employees" -> {"position", "salary"}
      [] r = "meetings"  -> {"date"}
      [] r = "chats"     -> {"sender", "timestamp"}
      [] OTHER           -> {}

\* document d satisfies every criterion the request supplies
Satisfies(r, d, id, q) ==
    /\ id # None => d["_id"] = ObjectId(Val(id))
    /\ \A k \in SearchParams(r) :
           q[k] # None =>
               IF k \in ExactParams(r) THEN d[k] = Val(q[k])
               ELSE RegexSearch(Val(q[k]), d[k])

WellFormed(id) == id = None \/ ObjectIdValid(Val(id))

\* C9: search with no filters answers as list does, with the same records,
\* and a search whose well-formed filters no record satisfies returns an
\* empty list, not an error.
C9_SearchNoFiltersIsList ==
    /\ LET s == search(res, coll, None, NoFilters(res))
           l == list(res, coll)
       IN  s.status = l.status /\ s.data = l.data
    /\ (/\ req.op = "search"
        /\ WellFormed(req.id)
        /\ \A d \in before : ~Satisfies(res, d, req.id, req.q))
       => resp = Response(200, {})

\* C10: search returns exactly the present records that satisfy every
\* supplied criterion, a supplied salary of 0 included; a criterion that is
\* not supplied restricts nothing.
C10_SearchIsConjunctionOfSupplied ==
    (req.op = "search" /\ WellFormed(req.id))
    => resp = Response(200,
                  {Rec(d) : d \in {x \in before : Satisfies(res, x, req.id, req.q)}})

\* s contains v as a substring, letter case aside
ContainsCI(v, s) ==
    \E off \in 0..Len(s) :
        /\ off + Len(v) <= Len(s)
        /\ \A j \in 1..Len(v) : Lower(v[j]) = Lower(s[off + j])

\* the string filters C11 names
SubstringFields(r) ==
    CASE r = "documents" -> {"title", "uploaded_by"}
      [] r = "employees" -> {"name", "position"}
      [] r = "chats"     -> {"message", "sender"}
      [] r = "meetings"  -> {"title", "organizer"}
      [] r = "projects"  -> {"name"}
      [] OTHER           -> {}

\* the request supplies the filter k and no other
OnlyFilter(k) ==
    /\ req.op = "search"
    /\ req.id = None
    /\ req.q[k] # None
    /\ \A j \in SearchParams(res) \ {k} : req.q[j] = None

\* C11: a search on one of the string filters (document title and
\* uploaded_by, employee name and position, chat message and sender,
\* meeting title and organizer, project name) returns every record whose
\* field contains the filter value, letter case aside.
C11_StringFilterIsSubstringCI ==
    \A k \in SubstringFields(res) :
        OnlyFilter(k)
        => \A d \in before :
               ContainsCI(Val(req.q[k]), d[k]) => Rec(d) \in resp.data

\* the fields C12 names as compared exactly
ExactFields(r) ==
    CASE r = "projects"  -> {"status"}
      [] r = "expenses"  -> {"category"}
      [] r = "employees" -> {"salary"}
      [] OTHER           -> {}

\* C12: a search on project status, expense category or employee salary
\* returns only records whose field equals the filter value exactly.
C12_ExactFieldsUseEquality ==
    \A k \in ExactFields(res) :
        (req.op = "search" /\ req.q[k] # None)
        => \A x \in resp.data : x[k] = Val(req.q[k])

\* two present records share a uniqueness key
SharedKey(r, c) ==
    \E d1 \in c, d2 \in c : d1 # d2 /\ KeyOf(r, d1) = KeyOf(r, d2)

\* the update addresses a present record and carries the key of another
UpdateOntoTakenKey ==
    /\ UniqueKey(res) # {}
    /\ req.op = "update"
    /\ NamesRecord(before, ReqId)
    /\ \E d \in before :
           d["_id"] # ObjectId(ReqId) /\ KeyOf(res, d) = KeyOf(res, ReqBody)

\* C14: on a resource with a uniqueness rule, an update of a present record
\* with a payload whose key is the key of a different present record
\* succeeds, leaving two present records that share the key.
C14_UpdateSkipsUniqueness ==
    UpdateOntoTakenKey => (resp.status = 200 /\ SharedKey(res, coll))

\* C15: a response that is not a success leaves the store as it was; a
\* create inserts a record exactly when it answers 201; the number of
\* present records is the number of 201 creates minus the number of
\* successful deletes.
C15_FailureLeavesStoreUnchanged ==
    /\ resp.status >= 400 => coll = before
    /\ req.op = "create" => (coll # before <=> resp.status = 201)
    /\ Cardinality(coll) = n201 - Cardinality(deleted)

\* both requests in flight are answered
BothDone == \A w \in Workers : procs[w].pc = "done"

\* two creates carrying one uniqueness key were served at once and the
\* existence query of each found no record
RacedCreates ==
    /\ UniqueKey(res) # {}
    /\ BothDone
    /\ \A w \in Workers : procs[w].op = "create" /\ ~procs[w].seen
    /\ KeyOf(res, Val(procs[1].body)) = KeyOf(res, Val(procs[2].body))

\* the status of a create that reached insert_one: 201, except that the
\* employees handler fails after its insert
InsertedStatus(r) == IF r = "employees" THEN 500 ELSE 201

\* C13: the existence query and the insert of create are separate store
\* calls: when two creates with one key are served at once and both
\* queries find no record, both inserts happen, both requests are answered
\* as creates that inserted, and two present records share the key.
C13_CheckThenInsertRaces ==
    RacedCreates
    => /\ Cardinality(coll) = Cardinality(start) + 2
       /\ Cardinality({d \in coll \ start :
              KeyOf(res, d) = KeyOf(res, Val(procs[1].body))}) = 2
       /\ \A w \in Workers : procs[w].status = InsertedStatus(res)

\* the interleaving exists: two document creates with one title, both
\* answered 201, two present documents with that title
C13_Witness ==
    /\ res = "documents"
    /\ RacedCreates
    /\ \A w \in Workers : procs[w].status = 201
    /\ SharedKey(res, coll)

\* two deletes of one id, present when they arrived, were served at once
RacedDeletes ==
    /\ BothDone
    /\ \A w \in Workers : procs[w].op = "delete"
    /\ procs[1].id = procs[2].id
    /\ ObjectId(Val(procs[1].id)) \in Ids(start)

\* C16: of two deletes of one present id served at once, exactly one
\* observes deleted_count 1 and reports success, the other observes 0 and
\* reports failure; the record is removed once and no other record is
\* affected.
C16_ConcurrentDeletesOneWins ==
    RacedDeletes
    => /\ procs[1].count + procs[2].count = 1
       /\ \A w \in Workers :
              IF procs[w].count = 1 THEN procs[w].status \in {200, 204}
              ELSE procs[w].status >= 400
       /\ coll = {d \in start : d["_id"] # ObjectId(Val(procs[1].id))}

\* two deletes of one id raced while a second record was present
C16_Witness ==
    /\ RacedDeletes
    /\ Cardinality(start) = 2

====
